---------------------------- MODULE Spec2Model ----------------------------
(***************************************************************************)
(* Model of tools/ozon_parser/ozon_parser.py: the OzonParser session       *)
(* (constructor, start, stop, context manager), the navigation guard of    *)
(* parse_product, the field extraction, parse_listing / search, main, and  *)
(* the seeded fingerprint synthesis.                                       *)
(***************************************************************************)
EXTENDS Integers, Sequences, FiniteSets, TLC

(***************************************************************************)
(* Bounds of the model.                                                    *)
(***************************************************************************)
\* longest raw inner text of the price element, in characters
MaxPriceLen == 3
\* most item elements a listing page holds
MaxItems == 2
\* largest --limit value tried
MaxLimit == 2
\* number of states of the abstract random generator
RngMod == 7
\* most stop() calls a caller makes on one session
MaxStops == 2

(***************************************************************************)
(* Program constants.                                                      *)
(***************************************************************************)
\* len(page_text) < 200
EntryMinLen == 200
\* len(current_text) > 500
ExitMinLen == 500
\* for i in range(120)
PollRange == 120
\* if i >= 119
LastPollIndexLate == PollRange
LastPollIndex == 119

(***************************************************************************)
(* Body text.  A text is its length and the set of marked words it holds;  *)
(* a word is a phrase and the letter case it is written in, so that        *)
(* lower() is a real conversion.                                           *)
(***************************************************************************)
captcha_indicators ==
    { "dostup ogranichen", "captcha", "podtverdite, chto vy ne bot",
      "podtverdite chto vy ne bot", "peredvinte polzunok",
      "verify you are human", "human verification", "challenge" }

LetterCases == {"lower", "upper", "mixed"}

Word(p, c) == [phrase |-> p, cased |-> c]

\* str.lower() on one word
LowerWord(w) == [w EXCEPT !.cased = "lower"]

\* str.lower() on a text: the length is kept, every word is lower-cased
Lower(t) == [t EXCEPT !.words = {LowerWord(w) : w \in t.words}]

\* indicator in text (substring test; the indicators are lower-case literals)
Contains(t, indicator) == Word(indicator, "lower") \in t.words

\* any(indicator in text.lower() for indicator in captcha_indicators)
DetectedCaptcha(t) == \E ind \in captcha_indicators : Contains(Lower(t), ind)

\* detected_captcha or len(page_text) < 200
EntryChallengedOffByOne(t) == DetectedCaptcha(t) \/ t.len <= EntryMinLen
EntryChallenged(t) == DetectedCaptcha(t) \/ t.len < EntryMinLen

\* not still_captcha and len(current_text) > 500
ExitResolvedAtThreshold(t) == ~DetectedCaptcha(t) /\ t.len >= ExitMinLen
ExitResolved(t) == ~DetectedCaptcha(t) /\ t.len > ExitMinLen

\* the body texts the page may show: texts without a challenge phrase at every
\* length around the two thresholds, and long texts that hold a phrase
TextLens == {199, 200, 480, 500, 501}
PhraseWordSets == { {Word("captcha", "upper")}, {Word("challenge", "lower")} }
Texts ==
    [len : TextLens, words : { {Word("price", "mixed")} }]
    \cup [len : {501}, words : PhraseWordSets]
NoText == [len |-> 0, words |-> {Word("<unread>", "lower")}]

(***************************************************************************)
(* Outcomes of a call into the browser engine.                             *)
(***************************************************************************)
EngineOutcomes == {"ok", "timeout", "fault"}

\* the first outcome of a sequence of calls that is not "ok" ("ok" if none)
RECURSIVE FirstFailure(_)
FirstFailure(outs) ==
    IF outs = <<>> THEN "ok"
    ELSE IF Head(outs) # "ok" THEN Head(outs) ELSE FirstFailure(Tail(outs))


(***************************************************************************)
(* Element texts and the numeric price.  A text is a sequence of           *)
(* characters; the characters that matter are digits, the plain space,     *)
(* another whitespace character (the no-break space) and anything else.    *)
(***************************************************************************)
Digits == {"1"}
PlainSpace == " "
NoBreakSpace == "nbsp"
Whitespace == {PlainSpace, NoBreakSpace}
Chars == Digits \cup Whitespace \cup {"x"}

\* the value int() gives a decimal digit
DigitValue(c) ==
    CASE c = "0" -> 0 [] c = "1" -> 1 [] c = "2" -> 2 [] c = "3" -> 3 [] c = "4" -> 4
      [] c = "5" -> 5 [] c = "6" -> 6 [] c = "7" -> 7 [] c = "8" -> 8 [] c = "9" -> 9

\* all sequences over S of length at most n
SeqsUpTo(S, n) == UNION {[1..k -> S] : k \in 0..n}

\* str.strip(): leading and trailing whitespace removed
RECURSIVE LStrip(_)
LStrip(s) == IF s # <<>> /\ Head(s) \in Whitespace THEN LStrip(Tail(s)) ELSE s
RECURSIVE RStrip(_)
RStrip(s) ==
    IF s # <<>> /\ s[Len(s)] \in Whitespace
    THEN RStrip(SubSeq(s, 1, Len(s) - 1)) ELSE s
Strip(s) == RStrip(LStrip(s))

\* str.replace(' ', ''): every plain space removed
RECURSIVE RemovePlainSpaces(_)
RemovePlainSpaces(s) ==
    IF s = <<>> THEN <<>>
    ELSE IF Head(s) = PlainSpace THEN RemovePlainSpaces(Tail(s))
    ELSE <<Head(s)>> \o RemovePlainSpaces(Tail(s))

\* the class [\d\s]
DigitOrSpace(c) == c \in Digits \cup Whitespace

\* re.search(r'[\d\s]+', s): the leftmost longest run, as <<run>>, or <<>> for no match
RECURSIVE TakeRun(_)
TakeRun(s) ==
    IF s # <<>> /\ DigitOrSpace(Head(s)) THEN <<Head(s)>> \o TakeRun(Tail(s)) ELSE <<>>
RECURSIVE SearchDigitsSpaces(_)
SearchDigitsSpaces(s) ==
    IF s = <<>> THEN <<>>
    ELSE IF DigitOrSpace(Head(s)) THEN <<TakeRun(s)>>
    ELSE SearchDigitsSpaces(Tail(s))

\* int(s): surrounding whitespace is ignored, what is left must be digits only and
\* not empty, else ValueError
RECURSIVE DigitsValue(_)
DigitsValue(s) ==
    IF s = <<>> THEN 0 ELSE 10 * DigitsValue(SubSeq(s, 1, Len(s) - 1)) + DigitValue(s[Len(s)])
IntOf(s) ==
    LET t == Strip(s)
    IN  IF t # <<>> /\ \A i \in 1..Len(t) : t[i] \in Digits
        THEN [ok |-> TRUE, value |-> DigitsValue(t)]
        ELSE [ok |-> FALSE, value |-> 0]

\* lines 518-522: the outcome of the price clean-up for the extracted price text:
\* "skip" (no price_number key), "set" (price_number = value) or "raise" (ValueError)
PriceNumber(price) ==
    IF price = <<>> THEN [kind |-> "skip", value |-> 0]
    ELSE LET m == SearchDigitsSpaces(price)
         IN  IF m = <<>> THEN [kind |-> "skip", value |-> 0]
             ELSE LET n == IntOf(RemovePlainSpaces(m[1]))
                  IN  IF n.ok THEN [kind |-> "set", value |-> n.value]
                      ELSE [kind |-> "raise", value |-> 0]

\* SELECTORS["product"]: the nine fields of the product record, in order
ProductFields ==
    << "title", "price", "old_price", "discount", "rating", "reviews",
       "brand", "seller", "description" >>
ProductFieldSet == {ProductFields[i] : i \in 1..Len(ProductFields)}

\* what a field's element does on the page: absent, its read raises, or it has text
ElementOutcomes == {"missing", "fault", "text"}

\* _extract_text: the stripped text of the element, "" when absent or on any exception
ExtractText(outcome, raw) == IF outcome = "text" THEN Strip(raw) ELSE <<>>

\* the page contents tried: every element present, or one of the title and price
\* elements deviating (absent or faulting), or all absent, or all faulting
ElementProfiles ==
    { [f \in ProductFieldSet |-> "text"] }
    \cup { [f \in ProductFieldSet |-> IF f = g THEN o ELSE "text"] :
              g \in {"title", "price"}, o \in {"missing", "fault"} }
    \cup { [f \in ProductFieldSet |-> o] : o \in {"missing", "fault"} }

\* the raw inner text of an element: the price element's is drawn, the others' fixed
RawPriceTexts == SeqsUpTo(Chars, MaxPriceLen)
OtherRawText == <<"x", " ">>

\* lines 504-515: the data dict
ProductData(profile, rawPrice) ==
    [f \in ProductFieldSet |->
        ExtractText(profile[f], IF f = "price" THEN rawPrice ELSE OtherRawText)]


(***************************************************************************)
(* The process-wide random source (module random) and the fingerprint.     *)
(* The generator is a deterministic stream: its state decides every later  *)
(* raw value, and random.seed(n) puts it in the state that n names.        *)
(***************************************************************************)
RngStates == 0..(RngMod - 1)

\* random.seed(seed)
SeedState(n) == n % RngMod

\* the state after k raw values were taken
Advance(s, k) == (s + k) % RngMod

\* the k-th raw value taken from state s (k = 1 is the next one)
Raw(s, k) == Advance(s, k - 1)

\* random.choice(seq) and random.randint(a, b) on one raw value
Choice(seq, raw) == seq[(raw % Len(seq)) + 1]
RandInt(a, b, raw) == a + (raw % (b - a + 1))

\* a timezone id is the sequence of its path components; NoneZone is Python's None
DefaultZone == <<"Europe", "Moscow">>
NoneZone == <<"<None>">>
Zones == { <<"Europe", "Moscow">>, <<"Asia", "Yekaterinburg">>, <<"Europe", "Berlin">> }

\* word in timezone (substring test on the id)
InZone(word, tz) == \E i \in 1..Len(tz) : tz[i] = word

\* what the lookup service answers
LookupAnswers ==
    { [kind |-> "fault", zone |-> NoneZone],
      [kind |-> "status", zone |-> NoneZone],
      [kind |-> "nokey", zone |-> NoneZone],
      [kind |-> "null", zone |-> NoneZone] }
    \cup { [kind |-> "zone", zone |-> z] : z \in Zones }

\* detect_timezone_by_ip: the value returned for an answer of the service
DetectTimezoneByIp(answer) ==
    CASE answer.kind = "zone" -> answer.zone
      [] answer.kind = "null" -> NoneZone
      [] answer.kind = "nokey" -> DefaultZone
      [] OTHER -> DefaultZone

\* line 94
IsRussianTz(tz) ==
    InZone("Moscow", tz) \/ InZone("Kaliningrad", tz) \/ InZone("Samara", tz)
        \/ InZone("Yekaterinburg", tz)

\* lines 96-100
Platforms(tz) ==
    IF IsRussianTz(tz)
    THEN <<"Win32", "Win32", "Win32", "MacIntel", "Linux x86_64">>
    ELSE <<"Win32", "MacIntel", "Linux x86_64">>

\* USER_AGENTS: the operating-system family each entry names
USER_AGENTS ==
    << "Windows", "Windows", "Windows", "Macintosh", "Macintosh", "Windows",
       "Windows", "Windows", "Macintosh", "Windows", "Windows" >>

\* lines 106-122
Resolutions ==
    << <<1920, 1080>>, <<1920, 1080>>, <<1920, 1080>>, <<1920, 1080>>, <<2560, 1440>>,
       <<1366, 768>>, <<1536, 864>>, <<1440, 900>>, <<1680, 1050>> >>
CoreCounts == <<4, 6, 8, 8, 12, 16>>
MemoryMapTwicePerCore(cores) == 2 * cores
MemoryMap(cores) ==
    CASE cores = 4 -> 8 [] cores = 6 -> 16 [] cores = 8 -> 16
      [] cores = 12 -> 32 [] cores = 16 -> 32

\* lines 125-126: avail_width and avail_height
AvailWidth(width, raw) == width - RandInt(0, 100, raw)
AvailHeightFromZero(height, raw) == height - RandInt(0, 150, raw)
AvailHeight(height, raw) == height - RandInt(40, 150, raw)

\* lines 131-135: the timezone of the fingerprint for the platform drawn
FingerprintTimezoneAnyMac(platform, tz) == IF platform = "MacIntel" THEN DefaultZone ELSE tz
FingerprintTimezone(platform, tz) ==
    IF platform = "MacIntel" /\ IsRussianTz(tz) THEN DefaultZone ELSE tz

\* line 155: max_touch_points; the draw is made only off Win32
MaxTouchPointsAnyPlatform(platform, raw) == Choice(<<0, 5>>, raw)
MaxTouchPoints(platform, raw) == IF platform = "Win32" THEN 0 ELSE Choice(<<0, 5>>, raw)

\* the raw values generate_random_fingerprint may take from state s, in the order
\* of the calls: cores, resolution, avail_width, avail_height, platform,
\* user agent, touch points
RawDraws(s) == [k \in 1..7 |-> Raw(s, k)]

\* how many raw values generate_random_fingerprint takes: the touch-point draw
\* happens only off Win32
FingerprintDraws(tz, r) == IF Choice(Platforms(tz), r[5]) = "Win32" THEN 6 ELSE 7

\* generate_random_fingerprint, lines 94-162, for the looked-up zone tz (not None)
\* and the raw values r
GenerateFingerprint(tz, r) ==
    LET cores == Choice(CoreCounts, r[1])
        res == Choice(Resolutions, r[2])
        width == res[1]
        height == res[2]
        avail_width == AvailWidth(width, r[3])
        avail_height == AvailHeight(height, r[4])
        platform == Choice(Platforms(tz), r[5])
        timezone == FingerprintTimezone(platform, tz)
    IN  [ user_agent |-> Choice(USER_AGENTS, r[6]),
          user_agent_index |-> (r[6] % Len(USER_AGENTS)) + 1,
          screen |-> [ width |-> width, height |-> height,
                       avail_width |-> avail_width, avail_height |-> avail_height ],
          viewport |-> [ width |-> width, height |-> height - 40 ],
          hardware_concurrency |-> cores,
          device_memory |-> MemoryMap(cores),
          max_touch_points |-> MaxTouchPoints(platform, r[7]),
          platform |-> platform,
          timezone |-> timezone ]

NoFingerprint == [platform |-> "<none>"]


(***************************************************************************)
(* State.                                                                  *)
(***************************************************************************)
VARIABLES
    mainPc,        \* where main is: "new", "enter", "body", "output", "exit", "done"
    command,       \* args.command
    raised,        \* the exception propagating out of main, "none" if none
    seed,          \* self.seed: <<>> for None, <<n>> for the integer n
    rngState,      \* state of the process-wide random generator
    fingerprint,   \* self.fingerprint
    playwright,    \* self.playwright: "None" or "obj"
    browser,       \* self.browser
    page,          \* self.page
    resources,     \* the driver process, the browser and the page: none, live, closed
    initScript,    \* the override script is registered on the page
    warmedUp,      \* the warm-up delay of start() has completed
    stopCalls,     \* how many times stop() was invoked
    closeLog,      \* the close requests stop() issued, in order
    ppc,           \* where parse_product is
    phase,         \* phase of the navigation attempt
    ticks,         \* poll ticks performed in this attempt
    lastPageText,  \* the body text last read for classification
    navOutcome,    \* how the top-level navigation of parse_product ended
    caught,        \* the handler of parse_product's try block that ran, "none" if none
    extracted,     \* the field-extraction step was reached
    result,        \* what the parse operation returned
    listing,       \* the last parse_listing call: what the page held and the limit
    sessions       \* the sessions of a process that creates several

mainVars == <<mainPc, command, raised>>
rngVars == <<seed, rngState, fingerprint>>
sessVars == <<playwright, browser, page, resources, initScript, warmedUp>>
stopVars == <<stopCalls, closeLog>>
guardVars == <<ppc, phase, ticks, lastPageText, navOutcome, caught, extracted>>
vars == <<mainVars, rngVars, sessVars, stopVars, guardVars, result, listing, sessions>>

Commands == {"product", "category", "search"}
SeedArgs == {<<>>, <<1>>}
Resources == {"driver", "browser", "page"}
SessionIds == {"A", "B"}

NoResult == [kind |-> "none"]
ErrorResult(msg) == [kind |-> "error", error |-> msg]
IsError(r) == r.kind = "error"

NoListing ==
    [ called |-> FALSE, navigated |-> FALSE, outcome |-> "none", loaded |-> FALSE,
      elems |-> <<>>, discovered |-> 0, limit |-> 0 ]

NewSession == [stage |-> "new", seed |-> <<>>, zone |-> NoneZone, fingerprint |-> NoFingerprint]

\* the state main starts in: a fresh process, whose random generator the
\* interpreter seeded from the operating system
Init ==
    /\ mainPc = "new"
    /\ command \in Commands
    /\ raised = "none"
    /\ seed = <<>>
    /\ rngState \in RngStates
    /\ fingerprint = NoFingerprint
    /\ playwright = "None"
    /\ browser = "None"
    /\ page = "None"
    /\ resources = [r \in Resources |-> "none"]
    /\ initScript = FALSE
    /\ warmedUp = FALSE
    /\ stopCalls = 0
    /\ closeLog = <<>>
    /\ ppc = "idle"
    /\ phase = "Idle"
    /\ ticks = 0
    /\ lastPageText = NoText
    /\ navOutcome = "none"
    /\ caught = "none"
    /\ extracted = FALSE
    /\ result = NoResult
    /\ listing = NoListing
    /\ sessions = [s \in SessionIds |-> NewSession]

(***************************************************************************)
(* OzonParser.__init__ (lines 317-336), as main calls it (line 655).       *)
(***************************************************************************)
\* lines 331-332: if seed is not None: random.seed(seed)
Seeded(seedArg, s) == IF seedArg # <<>> THEN SeedState(seedArg[1]) ELSE s

Construct(seedArg) ==
    /\ mainPc = "new"
    /\ seed' = seedArg
    /\ rngState' = Seeded(seedArg, rngState)
    /\ playwright' = "None"
    /\ browser' = "None"
    /\ page' = "None"
    /\ mainPc' = "enter"
    /\ UNCHANGED <<command, raised, fingerprint, resources, initScript, warmedUp,
                   stopVars, guardVars, result, sessions, listing>>

(***************************************************************************)
(* __enter__ -> start() (lines 338-341, 347-389).  failAt is the engine    *)
(* call of start() that raises (0: none).  An exception leaves __enter__,  *)
(* and the with statement of main then never runs __exit__.                *)
(***************************************************************************)
StartCalls ==
    << "sync_playwright", "launch", "new_page", "add_init_script",
       "set_default_timeout", "wait_for_timeout" >>

\* the call numbered k was reached and returned
Returned(failAt, k) == failAt = 0 \/ failAt > k

Start(answer, failAt) ==
    /\ mainPc = "enter"
    /\ LET tz == DetectTimezoneByIp(answer)
           r == RawDraws(rngState)
           drawn == IF tz = NoneZone THEN 0 ELSE FingerprintDraws(tz, r)
           \* random.randint(2000, 4000) is evaluated once the warm-up call is reached
           warm == IF Returned(failAt, 5) THEN 1 ELSE 0
       IN  IF tz = NoneZone
           THEN \* line 94: 'Moscow' in None raises TypeError
                /\ failAt = 0
                /\ mainPc' = "done"
                /\ raised' = "start"
                /\ UNCHANGED <<rngState, fingerprint, sessVars>>
           ELSE /\ fingerprint' = GenerateFingerprint(tz, r)
                /\ rngState' = Advance(rngState, drawn + warm)
                /\ playwright' = IF Returned(failAt, 1) THEN "obj" ELSE "None"
                /\ browser' = IF Returned(failAt, 2) THEN "obj" ELSE "None"
                /\ page' = IF Returned(failAt, 3) THEN "obj" ELSE "None"
                /\ resources' =
                       [ driver |-> IF Returned(failAt, 1) THEN "live" ELSE "none",
                         browser |-> IF Returned(failAt, 2) THEN "live" ELSE "none",
                         page |-> IF Returned(failAt, 3) THEN "live" ELSE "none" ]
                /\ initScript' = Returned(failAt, 4)
                /\ warmedUp' = Returned(failAt, 6)
                /\ mainPc' = IF failAt = 0 THEN "body" ELSE "done"
                /\ raised' = IF failAt = 0 THEN "none" ELSE "start"
    /\ UNCHANGED <<command, seed, stopVars, guardVars, result, sessions, listing>>


(***************************************************************************)
(* parse_product (lines 420-530), called by main for the product command.  *)
(* The try block of lines 432-501 has two handlers: PlaywrightTimeoutError *)
(* prints and falls through to the extraction of line 503; any other       *)
(* exception returns the error result of line 501.                         *)
(***************************************************************************)
InParseProduct == mainPc = "body" /\ command = "product"

\* The locals of the guard (the loop index, the text read) are not used once a
\* handler runs: the model drops them there.
\* line 498-499: the handler of PlaywrightTimeoutError: control goes on at line 503
ContinueAfterTimeoutRetries ==
    /\ ppc' = "idle"
    /\ caught' = "timeout"
    /\ ticks' = 0
    /\ lastPageText' = NoText
    /\ UNCHANGED <<phase, extracted, result, mainVars>>
ContinueAfterTimeout ==
    /\ ppc' = "extract"
    /\ caught' = "timeout"
    /\ ticks' = 0
    /\ lastPageText' = NoText
    /\ UNCHANGED <<phase, extracted, result, mainVars>>

\* line 500-501: the handler of every other exception: the error result is returned
ReturnLoadErrorContinues ==
    /\ ppc' = "extract"
    /\ caught' = "fault"
    /\ ticks' = 0
    /\ lastPageText' = NoText
    /\ UNCHANGED <<phase, extracted, result, mainVars>>
ReturnLoadError ==
    /\ ppc' = "returned"
    /\ caught' = "fault"
    /\ phase' = "LoadFailed"
    /\ ticks' = 0
    /\ lastPageText' = NoText
    /\ result' = ErrorResult("load")
    /\ mainPc' = "output"
    /\ UNCHANGED <<extracted, command, raised>>

\* line 434: self.page.goto(url, wait_until="domcontentloaded", timeout=60000)
\* On a session without a page, self.page is None and the attribute lookup of goto
\* raises AttributeError inside the try block: no navigation is issued.
PP_GotoTimeoutFails(out) ==
    /\ InParseProduct
    /\ ppc = "idle"
    /\ navOutcome' = IF page = "None" THEN "none" ELSE out
    /\ IF page = "None" THEN out = "fault" /\ ReturnLoadError
       ELSE CASE out = "ok" ->
              /\ ppc' = "classify"
              /\ phase' = "Classifying"
              /\ UNCHANGED <<ticks, lastPageText, caught, extracted, result, mainVars>>
         [] OTHER -> ReturnLoadError
    /\ UNCHANGED <<rngVars, sessVars, stopVars, sessions, listing>>
PP_Goto(out) ==
    /\ InParseProduct
    /\ ppc = "idle"
    /\ navOutcome' = IF page = "None" THEN "none" ELSE out
    /\ IF page = "None" THEN out = "fault" /\ ReturnLoadError
       ELSE CASE out = "ok" ->
              /\ ppc' = "classify"
              /\ phase' = "Classifying"
              /\ UNCHANGED <<ticks, lastPageText, caught, extracted, result, mainVars>>
         [] out = "timeout" ->
              \* lines 498-499: the page is still the one being loaded
              /\ ppc' = "extract"
              /\ caught' = "timeout"
              /\ phase' = "Loading"
              /\ UNCHANGED <<ticks, lastPageText, extracted, result, mainVars>>
         [] OTHER -> ReturnLoadError
    /\ UNCHANGED <<rngVars, sessVars, stopVars, sessions, listing>>

\* lines 439-456: the settle delay, the body-text read and the entry classification
PP_Classify(waitOut, readOut, text) ==
    /\ InParseProduct
    /\ ppc = "classify"
    /\ LET out == FirstFailure(<<waitOut, readOut>>)
       IN  CASE out = "ok" ->
                  /\ lastPageText' = text
                  /\ IF EntryChallenged(text)
                     THEN phase' = "Challenged" /\ ppc' = "poll"
                     ELSE phase' = "Resolved" /\ ppc' = "diagnose"
                  /\ UNCHANGED <<ticks, caught, extracted, result, mainVars>>
             [] out = "timeout" -> ContinueAfterTimeout
             [] OTHER -> ReturnLoadError
    /\ UNCHANGED <<navOutcome, rngVars, sessVars, stopVars, sessions, listing>>

\* lines 467-481: what the pass with index i does with the text it read: the exit
\* test comes first, the test of the last index second; "exhausted" is the for
\* statement running out of indices
TickVerdictCeilingFirst(i, text) ==
    IF i >= LastPollIndex THEN "timedout"
    ELSE IF ExitResolved(text) THEN "resolved"
    ELSE IF i + 1 >= PollRange THEN "exhausted"
    ELSE "again"
TickVerdict(i, text) ==
    IF ExitResolved(text) THEN "resolved"
    ELSE IF i >= LastPollIndex THEN "timedout"
    ELSE IF i + 1 >= PollRange THEN "exhausted"
    ELSE "again"

\* lines 464-481: one pass of the loop body, for i = ticks, up to the pause of
\* line 473
PP_PollTick(waitOut, readOut, text) ==
    /\ InParseProduct
    /\ ppc = "poll"
    /\ ticks < PollRange
    /\ LET i == ticks
           out == FirstFailure(<<waitOut, readOut>>)
       IN  CASE out = "timeout" -> ContinueAfterTimeout
             [] out = "fault" -> ReturnLoadError
             [] OTHER ->
                  /\ ticks' = i + 1
                  /\ lastPageText' = text
                  /\ IF TickVerdict(i, text) = "resolved"
                     THEN /\ ppc' = "settle"
                          /\ phase' = "Resolved"
                          /\ UNCHANGED <<caught, extracted, result, mainVars>>
                     ELSE IF TickVerdict(i, text) = "timedout"
                     THEN \* line 481
                          /\ ppc' = "returned"
                          /\ phase' = "TimedOut"
                          /\ result' = ErrorResult("captcha timeout")
                          /\ mainPc' = "output"
                          /\ UNCHANGED <<caught, extracted, command, raised>>
                     ELSE IF TickVerdict(i, text) = "exhausted"
                     THEN \* range(120) is exhausted: control goes on at line 483
                          /\ ppc' = "diagnose"
                          /\ UNCHANGED <<phase, caught, extracted, result, mainVars>>
                     ELSE UNCHANGED <<ppc, phase, caught, extracted, result, mainVars>>
    /\ UNCHANGED <<navOutcome, rngVars, sessVars, stopVars, sessions, listing>>

\* lines 473-474: the extra pause after the exit condition held, then break
PP_Settle(out) ==
    /\ InParseProduct
    /\ ppc = "settle"
    /\ CASE out = "ok" ->
              /\ ppc' = "diagnose"
              /\ UNCHANGED <<phase, ticks, lastPageText, caught, extracted, result, mainVars>>
         [] out = "timeout" -> ContinueAfterTimeout
         [] OTHER -> ReturnLoadError
    /\ UNCHANGED <<navOutcome, rngVars, sessVars, stopVars, sessions, listing>>

\* lines 483-496: the screenshot and the second body-text read (whose text is only
\* printed); the guard's locals are not used after it
PP_Diagnose(shotOut, readOut) ==
    /\ InParseProduct
    /\ ppc = "diagnose"
    /\ LET out == FirstFailure(<<shotOut, readOut>>)
       IN  CASE out = "fault" -> ReturnLoadError
             [] out = "timeout" -> ContinueAfterTimeout
             [] OTHER ->
                  /\ ppc' = "extract"
                  /\ ticks' = 0
                  /\ lastPageText' = NoText
                  /\ UNCHANGED <<phase, caught, extracted, result, mainVars>>
    /\ UNCHANGED <<navOutcome, rngVars, sessVars, stopVars, sessions, listing>>

\* the product record: the nine fields, and price_number as <<n>> or <<>> (no key)
ProductResult(data, number) ==
    [kind |-> "product", data |-> data, price_number |-> number]

\* lines 503-530: the field extraction, the price clean-up, the pause and the return.
\* Nothing here is inside a try block: a ValueError of int() or a fault of the pause
\* leaves parse_product, and main's with statement, as an exception.
PP_Extract(profile, rawPrice, pauseOut) ==
    /\ InParseProduct
    /\ ppc = "extract"
    /\ extracted' = TRUE
    /\ LET data == ProductData(profile, rawPrice)
           number == PriceNumber(data["price"])
       IN  IF number.kind = "raise" \/ pauseOut # "ok"
           THEN /\ number.kind = "raise" => pauseOut = "ok"
                /\ ppc' = "raised"
                /\ raised' = IF number.kind = "raise" THEN "ValueError" ELSE "engine"
                /\ mainPc' = "exit"
                /\ UNCHANGED <<result, command>>
           ELSE /\ ppc' = "returned"
                /\ result' = ProductResult(data,
                                 IF number.kind = "set" THEN <<number.value>> ELSE <<>>)
                /\ mainPc' = "output"
                /\ UNCHANGED <<command, raised>>
    /\ UNCHANGED <<phase, ticks, lastPageText, navOutcome, caught, rngVars, sessVars,
                   stopVars, sessions, listing>>

(***************************************************************************)
(* parse_listing and search (lines 532-614), called by main for the        *)
(* category and search commands.                                           *)
(***************************************************************************)
\* the methods of the engine's page object that the source calls
PageMethods ==
    { "add_init_script", "set_default_timeout", "wait_for_timeout", "close",
      "query_selector", "query_selector_all", "goto", "inner_text", "screenshot" }

\* line 558 calls self.page.query_selectors_all, which the page object does not have:
\* the attribute lookup raises AttributeError inside the try block of line 557
ItemsQuery == "query_selectors_all"

ErrorItem(msg) == [kind |-> "error", error |-> msg]

\* where the extraction of one item raises (lines 574-593): nowhere, or at its
\* title, price or link; the fields assigned before the exception are kept
ItemFaults == {"none", "title", "price", "link"}

\* lines 562-595: the record of the item at 0-based index i
ItemRecord(i, faultAt) ==
    [ kind |-> "item",
      position |-> i + 1,
      title |-> IF faultAt = "title" THEN <<>> ELSE Strip(OtherRawText),
      price |-> IF faultAt \in {"title", "price"} THEN <<>> ELSE Strip(OtherRawText),
      link |-> IF faultAt = "none" THEN <<"https://www.ozon.ru", "href">> ELSE <<>>,
      failed |-> faultAt # "none" ]

Min(a, b) == IF a <= b THEN a ELSE b

\* lines 545-600: what parse_listing returns when the navigation and the pause end
\* as navOut and waitOut, the page holds the item elements elems and the limit
\* is limit (>= 0): item_elements[:limit] keeps the first min(limit, n)
ParseListingResult(navOut, waitOut, elems, limit) ==
    IF FirstFailure(<<navOut, waitOut>>) = "fault"
    THEN <<ErrorItem("load")>>
    ELSE IF ItemsQuery \notin PageMethods
    THEN <<ErrorItem("find")>>
    ELSE [i \in 1..Min(limit, Len(elems)) |-> ItemRecord(i - 1, elems[i])]

ListingResult(items) == [kind |-> "listing", items |-> items]

\* On a session without a page the goto of line 546 raises AttributeError, which
\* the handler of line 550 turns into the error result: no navigation is issued.
ListingReturn(navOut, waitOut, elems, limit) ==
    /\ page = "None" => navOut = "fault"
    /\ result' = ListingResult(ParseListingResult(navOut, waitOut, elems, limit))
    /\ mainPc' = "output"
    /\ listing' = [ called |-> TRUE, navigated |-> page # "None",
                     outcome |-> FirstFailure(<<navOut, waitOut>>),
                     loaded |-> FirstFailure(<<navOut, waitOut>>) # "fault",
                     elems |-> elems, discovered |-> Len(elems), limit |-> limit ]
    /\ UNCHANGED <<command, raised, rngVars, sessVars, stopVars, guardVars, sessions>>

\* parse_listing(args.url, args.limit)
ParseListing(navOut, waitOut, elems, limit) ==
    /\ mainPc = "body"
    /\ command = "category"
    /\ ListingReturn(navOut, waitOut, elems, limit)

\* search(args.query, args.limit): builds the search URL and delegates
Search(navOut, waitOut, elems, limit) ==
    /\ mainPc = "body"
    /\ command = "search"
    /\ ListingReturn(navOut, waitOut, elems, limit)

(***************************************************************************)
(* main, lines 665-676: printing and saving the result inside the with     *)
(* block; an I/O fault leaves the block as an exception.                   *)
(***************************************************************************)
Output(out) ==
    /\ mainPc = "output"
    /\ out \in {"ok", "fault"}
    /\ mainPc' = "exit"
    /\ raised' = IF out = "ok" THEN "none" ELSE "output"
    /\ UNCHANGED <<command, rngVars, sessVars, stopVars, guardVars, result, sessions, listing>>

(***************************************************************************)
(* __exit__ -> stop() (lines 343-345, 391-398).  fails is the set of       *)
(* resources whose close request raises.                                   *)
(***************************************************************************)
CloseOrder == <<"page", "browser", "driver">>

\* the field of the session that holds a resource
Field(r, pg, br, pw) == IF r = "page" THEN pg ELSE IF r = "browser" THEN br ELSE pw

\* the close requests stop() issues: one per field that is set, in order, up to and
\* including the first that raises (no request is inside a try block)
RECURSIVE CloseRequests(_, _, _)
CloseRequests(order, held, fails) ==
    IF order = <<>> THEN <<>>
    ELSE IF Head(order) \notin held THEN CloseRequests(Tail(order), held, fails)
    ELSE IF Head(order) \in fails THEN <<Head(order)>>
    ELSE <<Head(order)>> \o CloseRequests(Tail(order), held, fails)

SeqRange(q) == {q[i] : i \in 1..Len(q)}

\* lines 391-398: the body of stop()
StopBody(fails) ==
    /\ LET held == {r \in Resources : Field(r, page, browser, playwright) # "None"}
           reqs == CloseRequests(CloseOrder, held, fails)
           closedNow == SeqRange(reqs) \ fails
       IN  /\ fails \subseteq held
           /\ closeLog' = closeLog \o reqs
           /\ resources' = [r \in Resources |->
                               IF r \in closedNow THEN "closed" ELSE resources[r]]
           /\ raised' = IF SeqRange(reqs) \cap fails # {} THEN "stop" ELSE raised
    /\ stopCalls' = stopCalls + 1
    /\ UNCHANGED <<command, rngVars, playwright, browser, page, initScript, warmedUp,
                   guardVars, result, sessions, listing>>

\* __exit__ at the end of main's with block
Stop(fails) ==
    /\ mainPc = "exit"
    /\ StopBody(fails)
    /\ mainPc' = "done"

(***************************************************************************)
(* The run of main.                                                        *)
(***************************************************************************)
Limits == 0..MaxLimit
\* the item elements of a page: at most one of them faults
ElementSeqs ==
    { e \in SeqsUpTo(ItemFaults, MaxItems) :
          Cardinality({i \in 1..Len(e) : e[i] # "none"}) <= 1 }

\* the outcomes of two engine calls in a row, and the text the second one reads:
\* the first raises, or the second raises, or both return
ReadInputs ==
    { <<w, "ok", NoText>> : w \in {"timeout", "fault"} }
    \cup { <<"ok", r, NoText>> : r \in {"timeout", "fault"} }
    \cup { <<"ok", "ok", t>> : t \in Texts }

\* the page contents at the extraction and the outcome of the last pause: the
\* pause returns for any contents, or raises
ExtractInputs ==
    { <<pr, raw, "ok">> : pr \in ElementProfiles, raw \in RawPriceTexts }
    \cup { <<[f \in ProductFieldSet |-> "text"], <<"1">>, out>> : out \in {"timeout", "fault"} }

\* the outcomes of the navigation and the pause of parse_listing (the pause is
\* reached when the navigation returned), the item elements and the limit
ListingInputs ==
    { <<n, "ok", <<>>, 0>> : n \in {"timeout", "fault"} }
    \cup { <<"ok", w, e, l>> : w \in EngineOutcomes, e \in ElementSeqs, l \in Limits }

Next ==
    \/ \E sd \in SeedArgs : Construct(sd)
    \/ \E a \in LookupAnswers, k \in 0..Len(StartCalls) : Start(a, k)
    \/ \E out \in EngineOutcomes : PP_Goto(out)
    \/ ppc = "classify" /\ \E in \in ReadInputs : PP_Classify(in[1], in[2], in[3])
    \/ ppc = "poll" /\ \E in \in ReadInputs : PP_PollTick(in[1], in[2], in[3])
    \/ \E out \in EngineOutcomes : PP_Settle(out)
    \/ \E sh, r \in EngineOutcomes : PP_Diagnose(sh, r)
    \/ ppc = "extract" /\ \E in \in ExtractInputs : PP_Extract(in[1], in[2], in[3])
    \/ mainPc = "body" /\ \E in \in ListingInputs : ParseListing(in[1], in[2], in[3], in[4])
    \/ mainPc = "body" /\ \E in \in ListingInputs : Search(in[1], in[2], in[3], in[4])
    \/ \E out \in {"ok", "fault"} : Output(out)
    \/ mainPc = "exit" /\ \E f \in SUBSET Resources : Stop(f)

Spec == Init /\ [][Next]_vars

\* main is one sequential thread and every engine call returns or raises: a step
\* that can be taken is taken.  The random generator plays no part in whether main
\* goes on, so one initial state of it is taken.
InitFixedGenerator == Init /\ rngState = 0
SpecFair == InitFixedGenerator /\ [][Next]_vars /\ WF_vars(Next)

(***************************************************************************)
(* A process that creates several sessions: the constructors and the       *)
(* start() calls of the sessions in any order, all on the one random       *)
(* generator of the process.                                               *)
(***************************************************************************)
\* __init__, lines 328-332
SessionConstruct(s, seedArg) ==
    /\ sessions[s].stage = "new"
    /\ sessions' = [sessions EXCEPT ![s].stage = "constructed", ![s].seed = seedArg]
    /\ rngState' = Seeded(seedArg, rngState)
    /\ UNCHANGED <<mainVars, seed, fingerprint, sessVars, stopVars, guardVars, result, listing>>

\* start(), lines 350 and 389: the fingerprint is drawn first; the warm-up draw
\* is taken when the engine calls before it returned (warm)
SessionStart(s, answer, warm) ==
    /\ sessions[s].stage = "constructed"
    /\ LET tz == DetectTimezoneByIp(answer)
           r == RawDraws(rngState)
       IN  IF tz = NoneZone
           THEN /\ warm = FALSE
                /\ sessions' = [sessions EXCEPT ![s].stage = "failed"]
                /\ UNCHANGED rngState
           ELSE /\ sessions' = [sessions EXCEPT ![s].stage = "started",
                                                ![s].zone = tz,
                                                ![s].fingerprint = GenerateFingerprint(tz, r)]
                /\ rngState' = Advance(rngState,
                                   FingerprintDraws(tz, r) + (IF warm THEN 1 ELSE 0))
    /\ UNCHANGED <<mainVars, seed, fingerprint, sessVars, stopVars, guardVars, result, listing>>

NextSeed ==
    \/ \E s \in SessionIds, sd \in SeedArgs : SessionConstruct(s, sd)
    \/ \E s \in SessionIds, a \in LookupAnswers, w \in BOOLEAN : SessionStart(s, a, w)

SpecSeed == Init /\ [][NextSeed]_vars

(***************************************************************************)
(* A caller that drives the session through its methods rather than the    *)
(* with statement: it may call stop() before start(), after a start() that *)
(* raised, and again after an earlier stop(), and it may call a parse      *)
(* method on a session whose start() was not called or did not complete.   *)
(***************************************************************************)
\* stop() called directly: before start(), or once main's steps are over
StopCall(fails) ==
    /\ mainPc \in {"enter", "done"}
    /\ stopCalls < MaxStops
    /\ StopBody(fails)
    /\ UNCHANGED mainPc

\* the caller goes on to the parse call although start() was not called, or
\* raised and the caller caught the exception
UseWithoutStart ==
    /\ \/ mainPc = "enter"
       \/ mainPc = "done" /\ raised = "start" /\ stopCalls = 0
    /\ mainPc' = "body"
    /\ raised' = "none"
    /\ UNCHANGED <<command, rngVars, sessVars, stopVars, guardVars, result, sessions, listing>>

NextApi ==
    \/ Next
    \/ \E f \in SUBSET Resources : StopCall(f)
    \/ UseWithoutStart

\* the draws of the generator play no part in what stop() closes or in whether a
\* navigation is issued: one initial state of the generator is taken
SpecApi == InitFixedGenerator /\ [][NextApi]_vars

(***************************************************************************)
(* The claims.                                                             *)
(***************************************************************************)
\* a text holds one of the challenge phrases, written in any letter case
HoldsChallengePhrase(t) == \E w \in t.words : w.phrase \in captcha_indicators

\* C1: at most 120 poll ticks are ever performed; the attempt is TimedOut only after
\* exactly 120 ticks, and then parse_product has returned an error result without
\* extracting; and when the 120th tick still does not meet the exit condition the
\* attempt is TimedOut.
C1_TimeoutCeiling ==
    /\ ticks <= 120
    /\ phase = "TimedOut" =>
          ticks = 120 /\ ppc = "returned" /\ IsError(result) /\ ~extracted
    /\ ( /\ ticks = 120
         /\ lastPageText # NoText
         /\ HoldsChallengePhrase(lastPageText) \/ lastPageText.len <= 500 )
       => phase = "TimedOut"

C1_Witness == phase = "TimedOut" /\ ticks = 120 /\ IsError(result) /\ mainPc = "done"

C3_IndependentTeardown ==
    stopCalls > 0 =>
        closeLog = SelectSeq(CloseOrder, LAMBDA r : resources[r] # "none")

\* C4: when main has ended and start() had acquired a resource, stop() was invoked.
C4_TeardownAlwaysAttempted ==
    (mainPc = "done" /\ \E r \in Resources : resources[r] # "none") => stopCalls > 0

\* C5: two started sessions with the same seed and the same looked-up zone have the
\* same fingerprint, whatever the order of their constructors and start() calls.
C5_SeedDeterminism ==
    \A a, b \in SessionIds :
        ( /\ sessions[a].stage = "started"
          /\ sessions[b].stage = "started"
          /\ sessions[a].seed # <<>>
          /\ sessions[a].seed = sessions[b].seed
          /\ sessions[a].zone = sessions[b].zone )
        => sessions[a].fingerprint = sessions[b].fingerprint

\* C6: right after the entry classification the attempt is Challenged exactly when
\* the text read holds a challenge phrase (in any letter case) or is shorter than
\* 200 characters; otherwise it is Resolved.
C6_EntryClassification ==
    (ppc \in {"poll", "diagnose"} /\ ticks = 0) =>
        /\ phase = "Challenged" <=>
              (HoldsChallengePhrase(lastPageText) \/ lastPageText.len < 200)
        /\ phase \in {"Challenged", "Resolved"}
        /\ ppc = "poll" <=> phase = "Challenged"

C6_Witness ==
    /\ ppc = "poll" /\ ticks = 0 /\ phase = "Challenged"
    /\ lastPageText.len = 199 /\ ~HoldsChallengePhrase(lastPageText)

\* C7: right after a poll tick the attempt is Resolved exactly when the text read
\* holds no challenge phrase and is longer than 500 characters; otherwise it is
\* still Challenged (or TimedOut, on the 120th tick).
C7_ExitHysteresis ==
    (ticks >= 1 /\ (ppc \in {"poll", "settle"} \/ phase = "TimedOut")) =>
        /\ phase = "Resolved" <=>
              (~HoldsChallengePhrase(lastPageText) /\ lastPageText.len > 500)
        /\ phase # "Resolved" =>
              (phase = "Challenged" \/ (phase = "TimedOut" /\ ticks = 120))

C7_Witness ==
    /\ ppc = "settle" /\ phase = "Resolved" /\ ticks = 2
    /\ lastPageText.len = 501 /\ ~HoldsChallengePhrase(lastPageText)

C9_ExtractionNeverAborts ==
    (phase = "Resolved" /\ extracted) =>
        /\ raised # "ValueError"
        /\ ppc = "returned" =>
              result.kind = "product" /\ DOMAIN result.data = ProductFieldSet

\* C10: a listing call whose page loaded returns min(limit, n) item records, the
\* i-th with position i.
C10_ListingLimitPositions ==
    (listing.called /\ listing.loaded) =>
        /\ Len(result.items) = Min(listing.limit, listing.discovered)
        /\ \A i \in 1..Len(result.items) :
              result.items[i].kind = "item" /\ result.items[i].position = i

\* C11: every fingerprint start() obtained has a core count among 4, 6, 8, 12, 16
\* and the device memory the fixed map gives for it (4->8, 6->16, 8->16, 12->32,
\* 16->32).
C11_MemoryFollowsCores ==
    fingerprint # NoFingerprint =>
        LET c == fingerprint.hardware_concurrency
            m == fingerprint.device_memory
        IN  \/ c = 4 /\ m = 8
            \/ c = 6 /\ m = 16
            \/ c = 8 /\ m = 16
            \/ c = 12 /\ m = 32
            \/ c = 16 /\ m = 32

C11_Witness ==
    /\ fingerprint # NoFingerprint
    /\ fingerprint.hardware_concurrency = 12
    /\ fingerprint.device_memory = 32

\* C12: in every fingerprint start() obtained, avail_width <= width,
\* avail_height < height, viewport.height = screen.height - 40 and
\* viewport.width = screen.width.
C12_ScreenViewportConsistent ==
    fingerprint # NoFingerprint =>
        /\ fingerprint.screen.avail_width <= fingerprint.screen.width
        /\ fingerprint.screen.avail_height < fingerprint.screen.height
        /\ fingerprint.viewport.height = fingerprint.screen.height - 40
        /\ fingerprint.viewport.width = fingerprint.screen.width

C12_Witness ==
    /\ fingerprint # NoFingerprint
    /\ fingerprint.screen.width = 2560
    /\ fingerprint.screen.avail_width < 2560
    /\ fingerprint.screen.avail_height < 1440 - 40
    /\ fingerprint.viewport.height = 1400

\* a timezone id names one of the four zones the code treats as Russian
NamesRussianZone(tz) ==
    \E i \in 1..Len(tz) : tz[i] \in {"Moscow", "Kaliningrad", "Samara", "Yekaterinburg"}

\* C13: a started session's fingerprint has the timezone Europe/Moscow when its
\* platform is MacIntel and the looked-up zone is a Russian one, and the looked-up
\* zone unchanged in every other case.
C13_MacRussianCorrection ==
    \A s \in SessionIds :
        sessions[s].stage = "started" =>
            LET fp == sessions[s].fingerprint
                tz == sessions[s].zone
            IN  fp.timezone =
                    IF fp.platform = "MacIntel" /\ NamesRussianZone(tz)
                    THEN <<"Europe", "Moscow">> ELSE tz

C13_Witness ==
    \E s \in SessionIds :
        /\ sessions[s].stage = "started"
        /\ sessions[s].zone = <<"Asia", "Yekaterinburg">>
        /\ sessions[s].fingerprint.platform = "MacIntel"
        /\ sessions[s].fingerprint.timezone = <<"Europe", "Moscow">>

\* C14: in every fingerprint start() obtained, max_touch_points is 0 on Win32 and
\* 0 or 5 on every other platform.
C14_TouchFollowsPlatform ==
    fingerprint # NoFingerprint =>
        /\ fingerprint.platform = "Win32" => fingerprint.max_touch_points = 0
        /\ fingerprint.max_touch_points \in {0, 5}

C14_Witness ==
    /\ fingerprint # NoFingerprint
    /\ fingerprint.platform = "MacIntel"
    /\ fingerprint.max_touch_points = 5

\* C15: the fingerprint synthesis of start() never raises, whatever the timezone
\* lookup answered, and the fingerprint's timezone is the zone the lookup returned
\* or Europe/Moscow.
C15_LookupFailureRecovered ==
    \A s \in SessionIds :
        /\ sessions[s].stage # "failed"
        /\ sessions[s].stage = "started" =>
              sessions[s].fingerprint.timezone \in {sessions[s].zone, <<"Europe", "Moscow">>}

\* the digits of a text, in order
OnlyDigits(price) == SelectSeq(price, LAMBDA c : c \in Digits)

\* C16: the price clean-up never raises, and the record's price_number is the
\* integer spelt by the digits of the extracted price text, absent when the text
\* holds no digit.
C16_NumericPrice ==
    /\ raised # "ValueError"
    /\ (ppc = "returned" /\ result.kind = "product") =>
          result.price_number =
              IF OnlyDigits(result.data["price"]) = <<>> THEN <<>>
              ELSE <<DigitsValue(OnlyDigits(result.data["price"]))>>

\* C17: every close request a stop() call issues goes to a resource that is live
\* when stop() is called.
C17_StopOnlyClosesLive ==
    [][ \A i \in (Len(closeLog) + 1)..Len(closeLog') : resources[closeLog'[i]] = "live" ]_vars

C19_LastTickResolves ==
    /\ []( (ticks = 120 /\ lastPageText # NoText) =>
             IF ~HoldsChallengePhrase(lastPageText) /\ lastPageText.len > 500
             THEN phase = "Resolved" /\ ppc \in {"settle", "diagnose"}
             ELSE phase = "TimedOut" /\ ppc = "returned" /\ IsError(result) )
    /\ []( (ppc = "poll" /\ ticks >= 1) =>
             (HoldsChallengePhrase(lastPageText) \/ lastPageText.len <= 500) )
    /\ [][ (ppc = "poll" /\ phase' = "Resolved") => ppc' = "settle" ]_vars
    /\ [][ (ticks >= 1 /\ ppc # "diagnose" /\ ppc' = "diagnose") => ppc = "settle" ]_vars

C19_Witness ==
    /\ ticks = 120 /\ phase = "Resolved" /\ ppc = "diagnose"
    /\ lastPageText.len = 501 /\ ~HoldsChallengePhrase(lastPageText)

\* C20: a navigation is issued only on a session whose start() created the page,
\* registered the override script and completed the warm-up; a parse call on a
\* session whose start() has not completed issues none and returns an error result.
C20_SetupPrecedesNavigation ==
    /\ (navOutcome # "none" \/ listing.navigated) =>
          page = "obj" /\ initScript /\ warmedUp
    /\ (~warmedUp /\ ppc # "idle") => ppc = "returned" /\ IsError(result)
    /\ (~warmedUp /\ listing.called) =>
          Len(result.items) = 1 /\ result.items[1].kind = "error"

\* C21: a listing call that got past the navigation returns one record per processed
\* item, and in the record of an item every field other than the one whose
\* extraction failed is filled.
C21_ListingFieldIsolation ==
    (listing.called /\ listing.loaded) =>
        /\ Len(result.items) = Min(listing.limit, Len(listing.elems))
        /\ \A i \in 1..Len(result.items) :
              /\ result.items[i].kind = "item"
              /\ listing.elems[i] # "title" => result.items[i].title # <<>>
              /\ listing.elems[i] # "price" => result.items[i].price # <<>>
              /\ listing.elems[i] # "link" => result.items[i].link # <<>>

\* C22: a listing call goes on to the item extraction only with the page classified
\* and resolved, and not after an engine timeout of the navigation, which yields an
\* error result instead.
C22_ListingGuarded ==
    listing.called =>
        /\ listing.loaded => phase = "Resolved" /\ listing.outcome = "ok"
        /\ listing.outcome = "timeout" =>
              ~listing.loaded /\ result.items = <<ErrorItem("load")>>

\* C23: in every fingerprint start() obtained, the user agent names Windows when
\* the platform is Win32 and Macintosh when it is MacIntel, and the platform is one
\* of these two.
C23_UserAgentMatchesPlatform ==
    fingerprint # NoFingerprint =>
        \/ fingerprint.platform = "Win32" /\ fingerprint.user_agent = "Windows"
        \/ fingerprint.platform = "MacIntel" /\ fingerprint.user_agent = "Macintosh"

=============================================================================
